---- MODULE Spec2Model ----
(***************************************************************************)
(* The task orchestration and approval-gated execution engine of the       *)
(* backend: the Approval Ledger (services/activity_logger.py), the outbound*)
(* email sender (services/email_sender.py), the Conversation Store         *)
(* (services/session_manager.py), the orchestrator                         *)
(* (agents/orchistrator_agent/agent.py) and the classifier of the host     *)
(* orchestrator (agents/orchestrator/host_agent.py).                       *)
(*                                                                         *)
(* Identifiers: activity_id and session_id are random tokens in the code;  *)
(* here a row's identifier is its index in the table (1, 2, ...), and 0    *)
(* stands for Python's None.  Timestamps are values of the clock `now`     *)
(* (CURRENT_TIMESTAMP); 0 stands for a NULL timestamp.  Free text (topic,  *)
(* prompt, drafted body, reasoning) is not represented: every logging site *)
(* stores a non-empty agent_response.  The session_id back-reference of an *)
(* activity row is written once and never read, and is not represented;    *)
(* its case_id is read only by send_approved_email, to look up the client's*)
(* address in CASE_DATA, and that lookup's outcome is an input here.       *)
(***************************************************************************)
EXTENDS Integers, Sequences, FiniteSets, TLC

VARIABLES
    activities,   \* table agent_activities, in insertion order
    sessions,     \* table agent_sessions, in insertion order
    messages,     \* table session_messages, in insertion order
    outbox,       \* activity ids for which the SMTP sender delivered a mail
    calls,        \* per session_messages row: how far the store_message call
                  \* that INSERTed it got ("inserted", "updated", "raised")
    now,          \* CURRENT_TIMESTAMP
    response,     \* what orchestrator() answered, in the step that answers
    analysis,     \* what a classifier called on one reply was given and made
                  \* of it, in the step that calls it
    outcome,      \* a routine of the delegation layer called on its own: its
                  \* name, its input, and its result once it is done
    senders       \* per caller of send_approved_email: how far its call
                  \* got ("idle", "read", "delivered") and for which row

vars == <<activities, sessions, messages, calls, outbox, now, response, analysis, outcome, senders>>

(* ------------------------------ bounds -------------------------------- *)
MaxActs == 2
MaxSessions == 1
MaxMsgs == 2
MaxTime == 2
MaxSent == 1
MaxMatched == 2
MaxParts == 2
MaxCallers == 2
MaxDelivered == 2

(* ----------------------------- value sets ----------------------------- *)
Cases == {"c1", "c2"}
Actors == {"alice", "bob"}
NULL == "NULL"

\* The action types the analysis prompt offers the classifier.
ActionTypes ==
    {"research_internal", "research_external", "draft_email",
     "schedule_appointment", "process_evidence", "search_records",
     "request_records", "general_query"}

\* The action types the prompt marks REQUIRES APPROVAL.
StaticApprovalSet == {"draft_email", "schedule_appointment", "request_records"}

(* --------------------------- Approval Ledger -------------------------- *)

\* The row INSERTed by log_agent_activity: activity_status is the literal
\* 'pending'; the columns the INSERT does not name are NULL.
ActivityRow(agent_action, requires_approval) ==
    [agent_action       |-> agent_action,
     activity_status    |-> "pending",
     requires_approval  |-> requires_approval,
     updated_at         |-> 0,
     approved_at        |-> 0,
     approved_by        |-> NULL,
     execution_result   |-> NULL,
     error_message      |-> NULL]

\* log_agent_activity: the table after the call.  db_ok = FALSE is a failed
\* connection or a failed INSERT: the exception is swallowed, nothing is
\* written.
log_agent_activity(acts, agent_action, requires_approval, db_ok) ==
    IF db_ok
    THEN Append(acts, ActivityRow(agent_action, requires_approval))
    ELSE acts

\* log_agent_activity: the value returned, the new activity_id or None.
log_agent_activity_id(acts, db_ok) ==
    IF db_ok THEN Len(acts) + 1 ELSE 0

\* The SET clause of update_activity_status applied to one row at time t.
UpdatedRow(row, status, approved_by, execution_result, error_message, t) ==
    [row EXCEPT
        !.activity_status  = status,
        !.updated_at       = t,
        !.approved_at      = IF status \in {"approved", "rejected"} THEN t ELSE @,
        !.approved_by      = approved_by,
        !.execution_result = execution_result,
        !.error_message    = error_message]

\* The WHERE clause of update_activity_status: the rows the UPDATE touches.
UpdateMatches(acts, activity_id) ==
    activity_id \in 1..Len(acts)

\* update_activity_status: the table after the call.
update_activity_status(acts, activity_id, status, approved_by, execution_result, error_message, t, db_ok) ==
    IF db_ok /\ UpdateMatches(acts, activity_id)
    THEN [acts EXCEPT ![activity_id] =
            UpdatedRow(@, status, approved_by, execution_result, error_message, t)]
    ELSE acts

\* update_activity_status: the bool returned.  True after the commit,
\* whatever the number of rows the UPDATE matched; False when the connection
\* or the statement failed.
update_activity_status_ret(acts, activity_id, db_ok) ==
    db_ok

\* The ways the documented callers invoke update_activity_status: an
\* approval actor approves or rejects under its name; an executor records
\* completed with a result, or failed with an error.
UpdateCalls ==
    [status : {"approved", "rejected"}, approved_by : Actors,
     execution_result : {NULL}, error_message : {NULL}]
    \cup
    {[status |-> "completed", approved_by |-> NULL,
      execution_result |-> "result", error_message |-> NULL],
     [status |-> "failed", approved_by |-> NULL,
      execution_result |-> NULL, error_message |-> "error"]}

(* ------------------------ response envelope -------------------------- *)

\* The dict orchestrator() returns (status is always 'success' there).
\* session_id 0 / activity_id 0 stand for None.
Response(session_id, session_mode, action_type, requires_approval, activity_id) ==
    [status            |-> "success",
     session_id        |-> session_id,
     session_mode      |-> session_mode,
     action_type       |-> action_type,
     requires_approval |-> requires_approval,
     activity_id       |-> activity_id]

\* orchestrator() raised: process_with_agent answers status 'error'.
Raised ==
    [status |-> "raised", session_id |-> 0, session_mode |-> "none",
     action_type |-> "none", requires_approval |-> FALSE, activity_id |-> 0]

\* The step taken is not a request to the orchestrator.
NoResponse ==
    [status |-> "none", session_id |-> 0, session_mode |-> "none",
     action_type |-> "none", requires_approval |-> FALSE, activity_id |-> 0]

(* ------------------------- Conversation Store ------------------------- *)

\* create_session: the row INSERTed, status 'active', message_count 0; the
\* INSERT does not name completed_at, which stays NULL (0).
\* (agent_type and topic are free text and are not represented.)
create_session(sess, case_id, t) ==
    Append(sess, [case_id       |-> case_id,
                  status        |-> "active",
                  last_activity |-> t,
                  completed_at  |-> 0,
                  message_count |-> 0])

\* get_active_session: the rows "WHERE case_id = %s AND status = 'active'
\* ORDER BY last_activity DESC LIMIT 1" may return; rows that tie on
\* last_activity are returned in an order the store chooses.  The empty set
\* is the result None.
get_active_session(sess, case_id) ==
    LET act == {i \in 1..Len(sess) :
                    sess[i].case_id = case_id /\ sess[i].status = "active"}
    IN  {i \in act : \A j \in act : sess[j].last_activity <= sess[i].last_activity}

\* A store that files a new message ahead of the earlier ones.
store_message_at_head(msgs, session_id, role, t) ==
    <<[session_id |-> session_id, role |-> role, timestamp |-> t]>> \o msgs

\* store_message, the INSERT INTO session_messages.
store_message_insert(msgs, session_id, role, t) ==
    Append(msgs, [session_id |-> session_id, role |-> role, timestamp |-> t])

\* A store whose UPDATE counts a message twice.
store_message_update_twice(sess, session_id, t) ==
    IF session_id \in 1..Len(sess)
    THEN [sess EXCEPT ![session_id] =
            [@ EXCEPT !.last_activity = t, !.message_count = @ + 2]]
    ELSE sess

\* store_message, the UPDATE agent_sessions ... WHERE session_id = %s.
store_message_update(sess, session_id, t) ==
    IF session_id \in 1..Len(sess)
    THEN [sess EXCEPT ![session_id] =
            [@ EXCEPT !.last_activity = t, !.message_count = @ + 1]]
    ELSE sess

\* The session_messages rows "WHERE session_id = %s".
SessionRows(msgs, session_id) ==
    {i \in 1..Len(msgs) : msgs[i].session_id = session_id}

\* get_recent_messages(session_id, count): the results the call may return.
\* A result lists rows (a row's index stands for its role and content).
\* "ORDER BY timestamp DESC LIMIT count" yields any count rows in an order
\* that does not increase in timestamp and leaves out no later row; rows
\* that tie on timestamp come in an order the store chooses.  The list is
\* then reversed.  A failed connection or query gives the empty list.
get_recent_messages(msgs, session_id, count, db_ok) ==
    IF ~db_ok THEN {<<>>}
    ELSE LET rows == SessionRows(msgs, session_id)
             k    == IF count < Cardinality(rows) THEN count ELSE Cardinality(rows)
             desc == {q \in [1..k -> rows] :
                         /\ \A a, b \in 1..k :
                               a < b => /\ q[a] # q[b]
                                        /\ msgs[q[a]].timestamp >= msgs[q[b]].timestamp
                         /\ \A i \in rows :
                               (\A a \in 1..k : q[a] # i) =>
                                   \A a \in 1..k : msgs[i].timestamp <= msgs[q[a]].timestamp}
         IN  {[a \in 1..k |-> q[k + 1 - a]] : q \in desc}

\* end_session(session_id, final_status): "UPDATE agent_sessions SET status
\* = %s, completed_at = CURRENT_TIMESTAMP() WHERE session_id = %s", whatever
\* the row's present status; a failed connection or statement writes
\* nothing.
end_session(sess, session_id, final_status, t, db_ok) ==
    IF db_ok /\ session_id \in 1..Len(sess)
    THEN [sess EXCEPT ![session_id] =
            [@ EXCEPT !.status = final_status, !.completed_at = t]]
    ELSE sess

\* end_session: the bool returned, True unless the statement raised.
end_session_ret(db_ok) ==
    db_ok

\* The final statuses end_session documents.
FinalStatuses == {"completed", "needs_approval"}

(* ------------------------------ sub-agents ---------------------------- *)

\* An orchestrator that logs what the classifier reported.
OrchestratorLogsClassifierValue(classifier_value) ==
    classifier_value

\* The requires_approval argument of the orchestrator's three
\* log_agent_activity calls: the literal True, not the classifier's value.
OrchestratorLogRequiresApproval(classifier_value) ==
    TRUE

\* The requires_approval argument of process_evidence_from_email's
\* log_agent_activity call: the literal False.
EvidenceLogRequiresApproval ==
    FALSE

\* The routes of the orchestrator that can raise inside the handler:
\* draft_email and research_internal call model.generate_content outside
\* any try; records_wrangler_guru, which request_records and search_records
\* call, is imported from a module that does not define it, so nothing
\* bounds what it does.
HandlerCanRaise(action_type) ==
    action_type \in {"draft_email", "research_internal", "request_records",
                     "search_records"}

\* prepare_email_for_approval: without a case_id it returns its error dict;
\* otherwise it logs the 'send_email' activity with requires_approval=True.
\* It sends nothing.
prepare_email_for_approval(acts, has_case_id, db_ok) ==
    IF has_case_id
    THEN log_agent_activity(acts, "send_email", TRUE, db_ok)
    ELSE acts

\* client_communication_guru, lines 143-166: with send_email the draft is
\* handed to prepare_email_for_approval and the result carries
\* email_sent = False; without it the result has no email_sent at all,
\* which its caller reads as false too.
client_communication_guru(acts, has_case_id, send_email, db_ok) ==
    [activities |-> IF send_email
                    THEN prepare_email_for_approval(acts, has_case_id, db_ok)
                    ELSE acts,
     email_sent |-> FALSE]

\* Step 5 of the orchestrator, the ledger side of the route taken for
\* action_type: the table after the route and the activity_id it leaves in
\* the response.  log1_ok is the outcome of the INSERT made inside
\* client_communication_guru, log2_ok that of the INSERT made by the
\* orchestrator itself.
Route(acts, action_type, classifier_ra, draft, log1_ok, log2_ok) ==
    CASE action_type = "draft_email" ->
            \* process_with_agent rejects a request without case_id
            LET g == client_communication_guru(acts, TRUE, TRUE, log1_ok)
            IN  IF ~g.email_sent
                THEN [activities |-> log_agent_activity(g.activities,
                                        "draft_email",
                                        OrchestratorLogRequiresApproval(classifier_ra),
                                        log2_ok),
                      activity_id |-> log_agent_activity_id(g.activities, log2_ok)]
                ELSE [activities |-> g.activities,
                      activity_id |-> log_agent_activity_id(acts, log1_ok)]
      [] action_type = "request_records" ->
            \* draft: agent_response.get('draft') of records_wrangler_guru
            IF draft
            THEN [activities |-> log_agent_activity(acts, "request_records",
                                    OrchestratorLogRequiresApproval(classifier_ra),
                                    log2_ok),
                  activity_id |-> log_agent_activity_id(acts, log2_ok)]
            ELSE [activities |-> acts, activity_id |-> 0]
      [] action_type = "schedule_appointment" ->
            [activities |-> log_agent_activity(acts, "schedule_appointment",
                                OrchestratorLogRequiresApproval(classifier_ra),
                                log2_ok),
             activity_id |-> log_agent_activity_id(acts, log2_ok)]
      [] OTHER ->
            \* process_evidence (called with attachments=[]: the sorter
            \* returns its error dict before processing anything),
            \* search_records, research_external, research_internal and the
            \* general branch log nothing.
            [activities |-> acts, activity_id |-> 0]

(* ------------------------- Intent Classifier -------------------------- *)

\* The analysis_data the orchestrator falls back to when json.loads fails.
FallbackAnalysis ==
    [is_continuation |-> FALSE, action_type |-> "general_query",
     requires_approval |-> FALSE]

\* The decisions a JSON object can hold, each key read with .get and its
\* default (False, 'general_query', False) when the object lacks it.
Decisions ==
    [is_continuation : BOOLEAN, action_type : ActionTypes,
     requires_approval : BOOLEAN]

\* What the inference call can produce: an exception, or a reply without
\* candidates ("raise"); a text that is not JSON ("unparsable"); a JSON
\* object inside a ``` fence ("fenced"); a JSON text that is not an object,
\* such as [] or null ("non_object"); a JSON object ("json").  data is the
\* decision the object holds.
Replies ==
    {[kind |-> k, data |-> FallbackAnalysis] : k \in {"raise", "unparsable", "non_object"}}
    \cup [kind : {"json", "fenced"}, data : Decisions]

\* Lines 91-102: analysis_data from the reply text.  json.loads is given
\* the text as it is, fence included.  (For a non_object reply json.loads
\* returns a value that is not a dict; see orchestrator_analysis.)
ParseAnalysis(reply) ==
    IF reply.kind = "json" THEN reply.data ELSE FallbackAnalysis

\* The classifier inside orchestrator(), lines 87-123: whether the request
\* raises while classifying, and the decision otherwise.  The inference
\* call and the read of candidates[0] are outside any try; a value that is
\* not a dict raises AttributeError at the first analysis_data.get.
orchestrator_analysis(reply) ==
    [raises |-> reply.kind \in {"raise", "non_object"},
     data   |-> ParseAnalysis(reply)]

\* HostOrchestrator.analyze_intent, lines 192-215: inference, fence
\* stripping, json.loads and the first .get are inside one try whose
\* handler returns the fallback dict.
analyze_intent(reply) ==
    [raises |-> FALSE,
     data   |-> IF reply.kind \in {"json", "fenced"} THEN reply.data
                ELSE FallbackAnalysis]

\* The step taken classifies nothing.
NoAnalysis ==
    [classifier |-> "none", reply |-> [kind |-> "none", data |-> FallbackAnalysis],
     raises |-> FALSE, data |-> FallbackAnalysis]

(* ---------------------------- Orchestrator ---------------------------- *)

\* The points of one request at which an exception leaves orchestrator():
\* the inference call, the first read of analysis_data, create_session,
\* the first store_message, the handler, the second store_message; "none":
\* the response is returned.
AbortPoints == {"infer", "analysis", "create_session", "store_user", "handler", "store_agent", "none"}

\* orchestrator(case_id, query, case_context, session_id): the three tables
\* after the request and what the caller receives.  active is the result of
\* get_active_session (0: None), abort the point where the request raised.
orchestrator(case_id, session_id, active, reply, abort, draft, log1_ok, log2_ok) ==
    LET current0      == IF session_id # 0 THEN session_id ELSE active
        analysis_data == ParseAnalysis(reply)
        continuing    == current0 # 0 /\ analysis_data.is_continuation
        session_mode  == IF continuing THEN "continue" ELSE "new"
        sess3         == IF continuing THEN sessions
                         ELSE create_session(sessions, case_id, now)
        current       == IF continuing THEN current0 ELSE Len(sessions) + 1
        msgs4         == store_message_insert(messages, current, "user", now)
        sess4         == store_message_update(sess3, current, now)
        action_type   == analysis_data.action_type
        routed        == Route(activities, action_type,
                               analysis_data.requires_approval,
                               draft, log1_ok, log2_ok)
        msgs6         == store_message_insert(msgs4, current, "agent", now)
        sess6         == store_message_update(sess4, current, now)
    IN  CASE abort \in {"infer", "analysis", "create_session"} ->
                [sessions |-> sessions, messages |-> messages,
                 activities |-> activities, ret |-> Raised]
          [] abort = "store_user" ->
                [sessions |-> sess3, messages |-> messages,
                 activities |-> activities, ret |-> Raised]
          [] abort = "handler" ->
                [sessions |-> sess4, messages |-> msgs4,
                 activities |-> activities, ret |-> Raised]
          [] abort = "store_agent" ->
                [sessions |-> sess4, messages |-> msgs4,
                 activities |-> routed.activities, ret |-> Raised]
          [] OTHER ->
                [sessions |-> sess6, messages |-> msgs6,
                 activities |-> routed.activities,
                 ret |-> Response(current, session_mode, action_type,
                            analysis_data.requires_approval,
                            routed.activity_id)]

\* The abort points that exist on the path a request takes.
PossibleAborts(session_id, active, reply) ==
    IF reply.kind = "raise" THEN {"infer"}
    ELSE IF orchestrator_analysis(reply).raises THEN {"analysis"}
    ELSE LET d == ParseAnalysis(reply)
             current0 == IF session_id # 0 THEN session_id ELSE active
         IN  {"store_user", "store_agent", "none"}
             \cup (IF current0 # 0 /\ d.is_continuation THEN {} ELSE {"create_session"})
             \cup (IF HandlerCanRaise(d.action_type) THEN {"handler"} ELSE {})

\* The replies worth telling apart for a request that leaves at abort: a
\* request that raises never returns analysis_data.requires_approval, and
\* one that raises before the handler never reads action_type either, so
\* one value stands for all of them; a fenced reply is rejected by
\* json.loads whatever it holds, so one fenced reply stands for all.
RepliesAt(abort) ==
    LET parsed == {r \in Replies : r.kind \in {"json", "unparsable"}}
    IN  CASE abort = "infer" -> {r \in Replies : r.kind = "raise"}
          [] abort = "analysis" -> {r \in Replies : r.kind = "non_object"}
          [] abort \in {"create_session", "store_user"} ->
                {r \in parsed : /\ r.data.action_type = "general_query"
                                /\ ~r.data.requires_approval}
          [] abort \in {"handler", "store_agent"} ->
                {r \in parsed : ~r.data.requires_approval}
          [] OTHER -> parsed \cup {r \in Replies : r.kind = "fenced"
                                                   /\ r.data = FallbackAnalysis}

(* ----------------------------- email sender --------------------------- *)

\* A sender that does not look at the status it read.
SendAllowedAnyStatus(current_status) ==
    TRUE

\* send_approved_email, line 206: the status read from the row must be
\* 'approved' for the mail to go out.
SendAllowed(current_status) ==
    current_status = "approved"

\* send_approved_email(activity_id): the ledger after the call, whether
\* send_client_email was invoked (attempted) and whether it reported sent.
\* The row is read, refused unless SendAllowed, the client's address is
\* looked up, the mail is handed to send_client_email, and only a mail
\* reported sent is followed by update_activity_status(completed), whose
\* return value is discarded; a mail reported not sent is followed by no
\* write at all.
send_approved_email(acts, activity_id, conn_ok, client_known, smtp_ok, upd_ok, t) ==
    LET found == activity_id \in 1..Len(acts)
        goes  == /\ conn_ok
                 /\ found
                 /\ SendAllowed(acts[activity_id].activity_status)
                 /\ client_known
        sent  == goes /\ smtp_ok
    IN  [activities |-> IF sent
                        THEN update_activity_status(acts, activity_id, "completed",
                                 NULL, "result", NULL, t, upd_ok)
                        ELSE acts,
         attempted  |-> goes,
         sent       |-> sent]

\* The callers of send_approved_email.
Callers == 1..MaxCallers

\* No call of send_approved_email is under way.
NoSenders ==
    [c \in Callers |-> [pc |-> "idle", activity_id |-> 0]]

(* --------------------------- delegation layer ------------------------- *)

\* No routine of the delegation layer is being called.
NoOutcome ==
    [routine |-> "none", input |-> "none", done |-> FALSE, result |-> "none"]

(* host orchestrator: delegation to remote agents *)

\* The content delegate_to_agent starts from.
Placeholder == "Task submitted successfully"

\* Texts a part can carry: the placeholder, the empty text, two others.
Texts == {Placeholder, "", "t1", "t2"}

\* What a data part can say about the key requires_approval: the dict does
\* not hold it, or holds a true or a false value.
DataValues == {"absent", "true", "false"}

\* The parts the extraction loops tell apart: a text part and a data part.
Parts ==
    [type : {"text"}, text : Texts, data : {"absent"}]
    \cup [type : {"data"}, text : {""}, data : DataValues]

\* metadata.update(data) on the key requires_approval.
MetadataUpdate(metadata, data) ==
    IF data = "absent" THEN metadata ELSE data

\* Lines 276-294, the loop over the parts of the status message: a text
\* part sets content, a data part is merged into metadata.
RECURSIVE ExtractStatus(_, _, _)
ExtractStatus(parts, content, metadata) ==
    IF parts = <<>> THEN [content |-> content, metadata |-> metadata]
    ELSE LET part == Head(parts)
         IN  IF part.type = "text"
             THEN ExtractStatus(Tail(parts), part.text, metadata)
             ELSE ExtractStatus(Tail(parts), content, MetadataUpdate(metadata, part.data))

\* Artifact loops that let an artifact text replace whatever is there.
RECURSIVE ExtractArtifactsOverwriting(_, _, _)
ExtractArtifactsOverwriting(parts, content, metadata) ==
    IF parts = <<>> THEN [content |-> content, metadata |-> metadata]
    ELSE LET part == Head(parts)
         IN  IF part.type = "text"
             THEN ExtractArtifactsOverwriting(Tail(parts), part.text, metadata)
             ELSE ExtractArtifactsOverwriting(Tail(parts), content,
                                              MetadataUpdate(metadata, part.data))

\* Lines 297-315, the loops over the parts of the artifacts, in order: a
\* text part sets content only while content is still the placeholder, a
\* data part is merged into metadata.
RECURSIVE ExtractArtifacts(_, _, _)
ExtractArtifacts(parts, content, metadata) ==
    IF parts = <<>> THEN [content |-> content, metadata |-> metadata]
    ELSE LET part == Head(parts)
         IN  IF part.type = "text"
             THEN ExtractArtifacts(Tail(parts),
                                   IF content = Placeholder THEN part.text ELSE content,
                                   metadata)
             ELSE ExtractArtifacts(Tail(parts), content,
                                   MetadataUpdate(metadata, part.data))

\* A reading of the status that takes every state for a request for input.
NeedsInputAlways(state) ==
    TRUE

\* Lines 320-322: the status asks for more input.
NeedsInput(state) ==
    state = "input_required"

\* Lines 270-334: the result dict built from a Task.  task.state is
\* "none" for a task without status (the dict then says 'unknown').
TaskResult(task) ==
    LET st == ExtractStatus(task.status_parts, Placeholder, "absent")
        ar == ExtractArtifacts(task.artifact_parts, st.content, st.metadata)
    IN  [raises            |-> FALSE,
         success           |-> TRUE,
         content           |-> ar.content,
         metadata          |-> ar.metadata,
         status            |-> IF task.state = "none" THEN "unknown" ELSE task.state,
         requires_approval |-> \/ ar.metadata = "true"
                               \/ (task.state # "none" /\ NeedsInput(task.state))]

\* A result dict that is not built from a Task: no requires_approval key
\* (read as False), empty metadata.
PlainResult(raises, success, content) ==
    [raises |-> raises, success |-> success, content |-> content,
     metadata |-> "absent", status |-> "none", requires_approval |-> FALSE]

\* delegate_to_agent(agent_name, ...): registered is the set of names in
\* self.remote_agents, transport what send_message does: it returns a Task
\* ("task"), a direct message ("message"), a response that is not a
\* success response ("unexpected"), or raises (timeout, HTTP error,
\* JSON-RPC error: "raise").  The test for an unknown agent stands before
\* the try and raises ValueError.
delegate_to_agent(agent_name, registered, transport, task) ==
    IF agent_name \notin registered
    THEN PlainResult(TRUE, FALSE, "none")
    ELSE CASE transport = "task"       -> TaskResult(task)
           [] transport = "message"    -> PlainResult(FALSE, TRUE, "message")
           [] transport = "unexpected" -> PlainResult(FALSE, FALSE, "diagnostic")
           [] OTHER                    -> PlainResult(FALSE, FALSE, "diagnostic")

\* handle_general_query: the inference call is inside a try.
handle_general_query(infer_ok) ==
    IF infer_ok THEN PlainResult(FALSE, TRUE, "answer")
    ELSE PlainResult(FALSE, FALSE, "diagnostic")

\* The action types the host's prompt lists.
HostActionTypes ==
    {"draft_email", "draft_message", "schedule_appointment", "research_legal",
     "manage_records", "organize_evidence", "general_query"}

\* HostOrchestrator.process, lines 418-441, from the analysis on: the
\* route is chosen by agent_name and by action_type = 'general_query'
\* alone; the response's requires_approval is the analysis's.
process(a, registered, transport, task, infer_ok) ==
    LET result == IF a.agent_name = "Orchestrator" \/ a.action_type = "general_query"
                  THEN handle_general_query(infer_ok)
                  ELSE delegate_to_agent(a.agent_name, registered, transport, task)
    IN  [raises            |-> result.raises,
         status            |-> IF result.success THEN "success" ELSE "error",
         agent_type        |-> a.agent_name,
         action_type       |-> a.action_type,
         requires_approval |-> a.requires_approval,
         result            |-> result.content,
         delegated         |-> ~(a.agent_name = "Orchestrator" \/ a.action_type = "general_query")]

\* Names of agent cards init_agents may have resolved.
RemoteAgentNames == {"Client Communication Agent", "Legal Researcher Agent"}

\* What analyze_intent can return to process: the agent_name is free text
\* of the classifier ('Orchestrator', a card's name, or a name no card
\* carries), the action_type one of the prompt's or another text.
HostAnalyses ==
    [agent_name : RemoteAgentNames \cup {"Orchestrator", "Unlisted Agent"},
     action_type : {"general_query", "research_legal", "file_motion"},
     requires_approval : BOOLEAN]

\* The sequences of at most MaxParts parts.
PartSeqs ==
    UNION {[1..n -> Parts] : n \in 0..MaxParts}

\* The Tasks a remote agent can answer with: a status with a state and the
\* parts of its message (none: no message), or no status at all, and the
\* parts of the artifacts in the order of the artifacts.
Tasks ==
    [state : {"completed", "input_required", "working"},
     status_parts : PartSeqs, artifact_parts : PartSeqs]
    \cup [state : {"none"}, status_parts : {<<>>}, artifact_parts : PartSeqs]

\* A Task without status message and without artifacts.
EmptyTask ==
    [state |-> "completed", status_parts |-> <<>>, artifact_parts |-> <<>>]

(* keyword classifier and routers *)

\* task_patterns, in the order of the dict: the categories and the number
\* of keywords each defines (no keyword occurs twice in one list).
Categories ==
    <<"medical_records", "client_communication", "legal_research",
      "schedule_appointment", "document_organization">>

KeywordCount == <<13, 18, 16, 12, 11>>

\* An input text, as far as the classifier reads it: for each category
\* the number of its keywords that occur in the lower-cased text.  Every
\* combination of up to three matches per category is the count vector of
\* some text.
Matches == [1..Len(Categories) -> 0..MaxMatched]

\* A classifier that takes the category of lowest confidence.
BestMatchLowest(m) ==
    CHOOSE i \in 1..Len(Categories) :
        /\ \A j \in 1..Len(Categories) :
              m[i] * KeywordCount[j] <= m[j] * KeywordCount[i]
        /\ \A j \in 1..(i - 1) :
              m[i] * KeywordCount[j] < m[j] * KeywordCount[i]

\* Line 94, max(confidence_scores.items(), key=confidence): the first
\* category, in dict order, whose confidence score / len(keywords) no
\* other exceeds.  Two quotients are compared by cross-multiplication:
\* with these denominators the floats order as the fractions do.
BestMatch(m) ==
    CHOOSE i \in 1..Len(Categories) :
        /\ \A j \in 1..Len(Categories) :
              m[j] * KeywordCount[i] <= m[i] * KeywordCount[j]
        /\ \A j \in 1..(i - 1) :
              m[j] * KeywordCount[i] < m[i] * KeywordCount[j]

\* intelligent_task_type_detection: the confidence is returned as the
\* pair score / total; "best_confidence < 0.1" is 10 * score < total (no
\* list has a multiple of ten keywords, so no quotient is 0.1).
intelligent_task_type_detection(m) ==
    LET b == BestMatch(m)
    IN  [task_type |-> IF 10 * m[b] < KeywordCount[b] THEN "unknown" ELSE Categories[b],
         score     |-> m[b],
         total     |-> KeywordCount[b]]

\* The keys of agent_mapping in route_task_to_agent.
AgentMappingKeys ==
    {"medical_records", "client_communication", "legal_research",
     "schedule_appointment", "document_organization"}

\* agent_mapping[task_type]["agent"].
AgentMapping(task_type) ==
    CASE task_type = "medical_records"       -> "records_wrangler"
      [] task_type = "client_communication"  -> "client_communication_guru"
      [] task_type = "legal_research"        -> "legal_researcher"
      [] task_type = "schedule_appointment"  -> "voice_scheduler"
      [] OTHER                               -> "evidence_sorter"

\* route_task_to_agent(task_type): t.text is the string, t.spaced whether
\* it contains a blank, t.matches what the keyword classifier finds in it.
\* A string with a blank is replaced by the category detected in it.
route_task_to_agent(t) ==
    LET detection == intelligent_task_type_detection(t.matches)
        task_type == IF t.spaced THEN detection.task_type ELSE t.text
    IN  IF t.spaced /\ detection.task_type = "unknown"
        THEN [status |-> "error", error_code |-> "TASK_TYPE_DETECTION_FAILED",
              target_agent |-> "none"]
        ELSE IF task_type \notin AgentMappingKeys
        THEN [status |-> "error", error_code |-> "UNKNOWN_TASK_TYPE",
              target_agent |-> "none"]
        ELSE [status |-> "success", error_code |-> "none",
              target_agent |-> AgentMapping(task_type)]

\* The keys of task_routing_rules of the coordinator.
TaskRoutingKeys ==
    {"medical_records", "billing_request", "client_communication",
     "client_message", "legal_research", "case_law", "schedule_appointment",
     "schedule_deposition", "schedule_mediation", "document_organization",
     "evidence_upload", "attachment_processing"}

\* task_routing_rules[task_type][0].
TaskRoutingRules(task_type) ==
    CASE task_type \in {"medical_records", "billing_request"} -> "RecordsWrangler"
      [] task_type \in {"client_communication", "client_message"} -> "ClientCommunicationGuru"
      [] task_type \in {"legal_research", "case_law"} -> "LegalResearcher"
      [] task_type \in {"schedule_appointment", "schedule_deposition",
                        "schedule_mediation"} -> "VoiceScheduler"
      [] OTHER -> "EvidenceSorter"

\* Lines 81-90: the agent of the first keyword group found in the content
\* (group 0: no group matches).
ContentFallback(group) ==
    CASE group = 1 -> "RecordsWrangler"
      [] group = 2 -> "ClientCommunicationGuru"
      [] group = 3 -> "LegalResearcher"
      [] group = 4 -> "VoiceScheduler"
      [] group = 5 -> "EvidenceSorter"
      [] OTHER     -> "None"

\* TenderCoordinatorAgent._determine_target_agent: the rule's agent when
\* the task type has a rule and the agent is registered; otherwise the
\* agent the content's keywords point to, registered or not; None when no
\* keyword is found.
determine_target_agent(task_type, sub_agents, group) ==
    IF task_type \in TaskRoutingKeys /\ TaskRoutingRules(task_type) \in sub_agents
    THEN TaskRoutingRules(task_type)
    ELSE ContentFallback(group)

\* The if/elif chain of step 5 of orchestrator(): the handler run for an
\* action_type; the final else takes every other value.
OrchestratorHandler(action_type) ==
    CASE action_type = "draft_email"          -> "client_communication_guru"
      [] action_type = "process_evidence"     -> "evidence_sorter_guru"
      [] action_type \in {"search_records", "request_records"} -> "records_wrangler_guru"
      [] action_type = "schedule_appointment" -> "VoiceBotScheduler"
      [] action_type = "research_external"    -> "legal_researcher"
      [] action_type = "research_internal"    -> "research_internal"
      [] OTHER                                -> "general_query"

(* approval decisions of the delegation layer *)

\* approval_required_tasks of check_approval_required_after_execution.
CheckApprovalRequiredTasks ==
    {"client_communication", "settlement_discussion", "high_value_negotiation",
     "legal_filing", "court_communication"}

\* check_approval_required_after_execution: confidence is
\* execution_details.confidence in hundredths, 0 when the result carries
\* none (the default of the .get); below 0.8 approval is required whatever
\* the task type.
check_approval_required_after_execution(task_type, confidence) ==
    task_type \in CheckApprovalRequiredTasks \/ confidence < 80

\* self.approval_required_tasks of TenderPilotDelegationRouter.
RouterApprovalRequiredTasks ==
    {"client_communication", "settlement_discussion", "high_value_negotiation"}

\* TenderPilotDelegationRouter.route_task: an error for a task type
\* outside delegation_mapping (same keys and agents as agent_mapping),
\* otherwise the delegation with its requires_approval.
route_task(task_type) ==
    IF task_type \notin AgentMappingKeys
    THEN [status |-> "error", target_agent |-> "none", requires_approval |-> FALSE]
    ELSE [status |-> "success", target_agent |-> AgentMapping(task_type),
          requires_approval |-> task_type \in RouterApprovalRequiredTasks]

\* What the routing of orchestrator() decides for an action type: whether
\* the route leaves a ledger row that requires approval.
OrchestratorRoutingApproval(action_type) ==
    LET routed == Route(<<>>, action_type, FALSE, TRUE, TRUE, TRUE)
    IN  \E i \in 1..Len(routed.activities) : routed.activities[i].requires_approval

\* The task types the delegation layer names.
TaskTypes ==
    AgentMappingKeys \cup CheckApprovalRequiredTasks

(* --------------------------- initial state ---------------------------- *)

Init ==
    /\ activities = <<>>
    /\ sessions = <<>>
    /\ messages = <<>>
    /\ calls = <<>>
    /\ outbox = <<>>
    /\ now = 1
    /\ response = NoResponse
    /\ analysis = NoAnalysis
    /\ outcome = NoOutcome
    /\ senders = NoSenders

\* The other variables while a routine of the delegation layer runs.
TablesEmpty ==
    /\ activities = <<>>
    /\ sessions = <<>>
    /\ messages = <<>>
    /\ calls = <<>>
    /\ outbox = <<>>
    /\ now = 1
    /\ response = NoResponse
    /\ analysis = NoAnalysis
    /\ senders = NoSenders

\* delegate_to_agent is about to receive a Task from a registered agent.
InitDelegate ==
    /\ TablesEmpty
    /\ outcome \in [routine : {"delegate_to_agent"}, input : Tasks,
                    done : {FALSE}, result : {"none"}]

\* The host orchestrator is about to process a request: the analysis, the
\* agents registered, and what the transport and the inference will do.
InitHost ==
    /\ TablesEmpty
    /\ outcome \in [routine : {"process"},
                    input : [analysis : HostAnalyses,
                             registered : SUBSET RemoteAgentNames,
                             transport : {"task", "message", "unexpected", "raise"},
                             infer_ok : BOOLEAN],
                    done : {FALSE},
                    result : {"none"}]

\* One of the three routers is about to be called on an action kind: one
\* of its table, another identifier, or (route_task_to_agent) a free text.
InitRouting ==
    /\ TablesEmpty
    /\ \/ outcome \in [routine : {"route_task_to_agent"},
                       input : [text : AgentMappingKeys \cup {"file_motion"},
                                spaced : {FALSE},
                                matches : {[i \in 1..Len(Categories) |-> 0]}]
                               \cup [text : {"free text"}, spaced : {TRUE},
                                     matches : Matches],
                       done : {FALSE}, result : {"none"}]
       \/ outcome \in [routine : {"determine_target_agent"},
                       input : [task_type : {"legal_research", "case_law", "file_motion", ""},
                                sub_agents : SUBSET {"LegalResearcher", "RecordsWrangler"},
                                group : 0..5],
                       done : {FALSE}, result : {"none"}]
       \/ outcome \in [routine : {"orchestrator"},
                       input : ActionTypes \cup {"file_motion"},
                       done : {FALSE}, result : {"none"}]

\* intelligent_task_type_detection is about to be called on a text.
InitKeywords ==
    /\ TablesEmpty
    /\ outcome \in [routine : {"intelligent_task_type_detection"}, input : Matches,
                    done : {FALSE}, result : {"none"}]

\* One of the three routines that decide on approval is about to be
\* called on an action kind.
InitApproval ==
    /\ TablesEmpty
    /\ \/ outcome \in [routine : {"check_approval_required_after_execution"},
                       input : [task_type : TaskTypes \cup {"unknown"},
                                confidence : {0, 50, 79, 80, 85, 95}],
                       done : {FALSE}, result : {"none"}]
       \/ outcome \in [routine : {"route_task"},
                       input : TaskTypes \cup {"unknown"},
                       done : {FALSE}, result : {"none"}]
       \/ outcome \in [routine : {"orchestrator_routing"},
                       input : ActionTypes,
                       done : {FALSE}, result : {"none"}]

(* ------------------------------ actions ------------------------------- *)

\* Time passes between two statements.
Tick ==
    /\ now < MaxTime
    /\ now' = now + 1
    /\ response' = NoResponse
    /\ analysis' = NoAnalysis
    /\ outcome' = NoOutcome
    /\ UNCHANGED <<senders, activities, sessions, messages, calls, outbox>>

\* A caller (an approval actor, or an executor) calls update_activity_status.
UpdateActivityStatus ==
    \E activity_id \in 1..MaxActs, c \in UpdateCalls, db_ok \in BOOLEAN :
        /\ activities' = update_activity_status(activities, activity_id, c.status,
                            c.approved_by, c.execution_result, c.error_message, now, db_ok)
        /\ response' = NoResponse
        /\ analysis' = NoAnalysis
        /\ outcome' = NoOutcome
        /\ UNCHANGED <<senders, sessions, messages, calls, outbox, now>>

\* client_communication_guru called on its own.  infer_ok: the inference
\* call returns (it is outside any try).
ClientCommunicationGuru ==
    \E has_case_id \in BOOLEAN, send_email \in BOOLEAN, infer_ok \in BOOLEAN,
       db_ok \in BOOLEAN :
        /\ Len(activities) < MaxActs
        /\ activities' = IF infer_ok
                         THEN client_communication_guru(activities, has_case_id,
                                  send_email, db_ok).activities
                         ELSE activities
        /\ response' = NoResponse
        /\ analysis' = NoAnalysis
        /\ outcome' = NoOutcome
        /\ UNCHANGED <<senders, sessions, messages, calls, outbox, now>>

\* The number of session_messages rows a request writes before it leaves
\* orchestrator() at the point abort.
MessagesWritten(abort) ==
    CASE abort \in {"infer", "analysis", "create_session", "store_user"} -> 0
      [] abort \in {"handler", "store_agent"} -> 1
      [] OTHER -> 2

\* One request handled by orchestrator().  get_active_session swallows a
\* failed lookup and returns None.  The conditions on Len are the bounds of
\* the model.
Orchestrator ==
    \E abort \in AbortPoints :
        /\ Len(messages) + MessagesWritten(abort) <= MaxMsgs
        /\ \E case_id \in Cases, session_id \in 0..Len(sessions),
              reply \in RepliesAt(abort) :
           \E active \in (IF session_id # 0 THEN {0}
                          ELSE get_active_session(sessions, case_id) \cup {0}) :
           /\ abort \in PossibleAborts(session_id, active, reply)
           /\ \E log1_ok \in (IF ParseAnalysis(reply).action_type = "draft_email"
                                 /\ abort \in {"store_agent", "none"}
                              THEN BOOLEAN ELSE {TRUE}) :
              \E log2_ok \in (IF ParseAnalysis(reply).action_type \in StaticApprovalSet
                                 /\ abort \in {"store_agent", "none"}
                              THEN BOOLEAN ELSE {TRUE}) :
              \E draft \in (IF ParseAnalysis(reply).action_type = "request_records"
                                 /\ abort \in {"store_agent", "none"}
                              THEN BOOLEAN ELSE {TRUE}) :
              \E r \in {orchestrator(case_id, session_id, active, reply, abort,
                                     draft, log1_ok, log2_ok)} :
                   /\ Len(r.sessions) <= MaxSessions
                   /\ Len(r.activities) <= MaxActs
                   /\ sessions' = r.sessions
                   /\ messages' = r.messages
                   /\ calls' = calls \o [i \in 1..(Len(r.messages) - Len(messages))
                                            |-> "updated"]
                   /\ activities' = r.activities
                   /\ response' = r.ret
                   /\ analysis' = NoAnalysis
                   /\ outcome' = NoOutcome
                   /\ UNCHANGED <<senders, outbox, now>>

\* evidence_sorter_guru called with attachments: process_evidence ->
\* process_evidence_from_email logs the processing.
ProcessEvidence ==
    \E db_ok \in BOOLEAN :
        /\ Len(activities) < MaxActs
        /\ activities' = log_agent_activity(activities, "process_email_evidence",
                            EvidenceLogRequiresApproval, db_ok)
        /\ response' = NoResponse
        /\ analysis' = NoAnalysis
        /\ outcome' = NoOutcome
        /\ UNCHANGED <<senders, sessions, messages, calls, outbox, now>>

\* Steps 2 and 3 of orchestrator() on one reply of the inference service,
\* up to the decision the rest of the request reads: no table is written
\* before it.
OrchestratorAnalysis ==
    \E reply \in Replies :
        /\ analysis' = [classifier |-> "orchestrator", reply |-> reply,
                        raises |-> orchestrator_analysis(reply).raises,
                        data |-> orchestrator_analysis(reply).data]
        /\ outcome' = NoOutcome
        /\ response' = NoResponse
        /\ UNCHANGED <<senders, activities, sessions, messages, calls, outbox, now>>

\* HostOrchestrator.analyze_intent called on a query: it reads and writes
\* no table.
HostAnalyzeIntent ==
    \E reply \in Replies :
        /\ analysis' = [classifier |-> "host", reply |-> reply,
                        raises |-> analyze_intent(reply).raises,
                        data |-> analyze_intent(reply).data]
        /\ outcome' = NoOutcome
        /\ response' = NoResponse
        /\ UNCHANGED <<senders, activities, sessions, messages, calls, outbox, now>>

\* send_approved_email(activity_id).  conn_ok: the connection; client_known:
\* CASE_DATA holds a client_email for the row's case; smtp_ok:
\* send_client_email reports sent (credentials configured, SMTP accepted);
\* upd_ok: the connection of the update_activity_status call that follows a
\* delivery (its return value is discarded).
SendApprovedEmail ==
    \E activity_id \in 1..MaxActs, conn_ok \in BOOLEAN, client_known \in BOOLEAN :
        LET goes == send_approved_email(activities, activity_id, conn_ok,
                        client_known, FALSE, FALSE, now).attempted
        IN  \E smtp_ok \in (IF goes THEN BOOLEAN ELSE {FALSE}) :
            \E upd_ok \in (IF smtp_ok THEN BOOLEAN ELSE {FALSE}) :
                LET r == send_approved_email(activities, activity_id, conn_ok,
                             client_known, smtp_ok, upd_ok, now)
                IN  /\ r.sent => Len(outbox) < MaxSent
                    /\ outbox' = IF r.sent THEN Append(outbox, activity_id) ELSE outbox
                    /\ activities' = r.activities
                    /\ response' = NoResponse
                    /\ analysis' = NoAnalysis
                    /\ outcome' = NoOutcome
                    /\ UNCHANGED <<senders, sessions, messages, calls, now>>

\* send_approved_email, lines 175-237, in the call of caller c: the row
\* is SELECTed, its status is 'approved' and the client's address is
\* found.  (A call that returns an error here changes nothing.)
SenderRead(c) ==
    /\ senders[c].pc = "idle"
    /\ \E activity_id \in 1..MaxActs, conn_ok \in BOOLEAN, client_known \in BOOLEAN :
          /\ send_approved_email(activities, activity_id, conn_ok, client_known,
                                 FALSE, FALSE, now).attempted
          /\ senders' = [senders EXCEPT ![c] = [pc |-> "read", activity_id |-> activity_id]]
    /\ response' = NoResponse
    /\ analysis' = NoAnalysis
    /\ outcome' = NoOutcome
    /\ UNCHANGED <<activities, sessions, messages, calls, outbox, now>>

\* send_approved_email, lines 246-255, in the call of caller c:
\* send_client_email is invoked with what was read; a mail not reported
\* sent ends the call.
SenderDeliver(c) ==
    /\ senders[c].pc = "read"
    /\ \E smtp_ok \in BOOLEAN :
          IF smtp_ok
          THEN /\ Len(outbox) < MaxDelivered
               /\ outbox' = Append(outbox, senders[c].activity_id)
               /\ senders' = [senders EXCEPT ![c].pc = "delivered"]
          ELSE /\ outbox' = outbox
               /\ senders' = [senders EXCEPT ![c] = NoSenders[c]]
    /\ response' = NoResponse
    /\ analysis' = NoAnalysis
    /\ outcome' = NoOutcome
    /\ UNCHANGED <<activities, sessions, messages, calls, now>>

\* send_approved_email, lines 257-266, in the call of caller c: the row is
\* set to completed by update_activity_status, whose return value is
\* discarded, and the call returns.
SenderComplete(c) ==
    /\ senders[c].pc = "delivered"
    /\ \E upd_ok \in BOOLEAN :
          activities' = update_activity_status(activities, senders[c].activity_id,
                            "completed", NULL, "result", NULL, now, upd_ok)
    /\ senders' = [senders EXCEPT ![c] = NoSenders[c]]
    /\ response' = NoResponse
    /\ analysis' = NoAnalysis
    /\ outcome' = NoOutcome
    /\ UNCHANGED <<sessions, messages, calls, outbox, now>>

\* create_session called for a case.
CreateSession ==
    \E case_id \in Cases :
        /\ Len(sessions) < MaxSessions
        /\ sessions' = create_session(sessions, case_id, now)
        /\ response' = NoResponse
        /\ analysis' = NoAnalysis
        /\ outcome' = NoOutcome
        /\ UNCHANGED <<senders, activities, messages, calls, outbox, now>>

\* store_message, first statement: the INSERT.  Each call opens its own
\* connection with the connector's default autocommit, so the INSERT is
\* durable before the UPDATE is executed, and statements of concurrent
\* calls interleave.
StoreMessageInsert ==
    \E session_id \in 1..Len(sessions), role \in {"user", "agent"} :
        /\ Len(messages) < MaxMsgs
        /\ messages' = store_message_insert(messages, session_id, role, now)
        /\ calls' = Append(calls, "inserted")
        /\ response' = NoResponse
        /\ analysis' = NoAnalysis
        /\ outcome' = NoOutcome
        /\ UNCHANGED <<senders, activities, sessions, outbox, now>>

\* store_message, second statement, of a call whose INSERT is done: the
\* UPDATE of the owning session, or (db_ok = FALSE) the exception that
\* ends the call before it.
StoreMessageUpdate ==
    \E m \in 1..Len(messages), db_ok \in BOOLEAN :
        /\ calls[m] = "inserted"
        /\ sessions' = IF db_ok
                       THEN store_message_update(sessions, messages[m].session_id, now)
                       ELSE sessions
        /\ calls' = [calls EXCEPT ![m] = IF db_ok THEN "updated" ELSE "raised"]
        /\ response' = NoResponse
        /\ analysis' = NoAnalysis
        /\ outcome' = NoOutcome
        /\ UNCHANGED <<senders, activities, messages, outbox, now>>

\* end_session called on a session.
EndSession ==
    \E session_id \in 1..Len(sessions), final_status \in FinalStatuses,
       db_ok \in BOOLEAN :
        /\ sessions' = end_session(sessions, session_id, final_status, now, db_ok)
        /\ response' = NoResponse
        /\ analysis' = NoAnalysis
        /\ outcome' = NoOutcome
        /\ UNCHANGED <<senders, activities, messages, calls, outbox, now>>

\* HostOrchestrator.process runs on the request: it writes no table.
HostProcess ==
    /\ outcome.routine = "process"
    /\ ~outcome.done
    /\ outcome' = [outcome EXCEPT
                      !.done = TRUE,
                      !.result = process(outcome.input.analysis, outcome.input.registered,
                                         outcome.input.transport, EmptyTask,
                                         outcome.input.infer_ok)]
    /\ UNCHANGED <<senders, activities, sessions, messages, calls, outbox, now, response, analysis>>

\* route_task_to_agent returns.
RouteTaskToAgent ==
    /\ outcome.routine = "route_task_to_agent"
    /\ ~outcome.done
    /\ outcome' = [outcome EXCEPT !.done = TRUE,
                                  !.result = route_task_to_agent(outcome.input)]
    /\ UNCHANGED <<senders, activities, sessions, messages, calls, outbox, now, response, analysis>>

\* intelligent_task_type_detection returns.
DetectTaskType ==
    /\ outcome.routine = "intelligent_task_type_detection"
    /\ ~outcome.done
    /\ outcome' = [outcome EXCEPT
                      !.done = TRUE,
                      !.result = intelligent_task_type_detection(outcome.input)]
    /\ UNCHANGED <<senders, activities, sessions, messages, calls, outbox, now, response, analysis>>

\* _determine_target_agent returns.
DetermineTargetAgent ==
    /\ outcome.routine = "determine_target_agent"
    /\ ~outcome.done
    /\ outcome' = [outcome EXCEPT
                      !.done = TRUE,
                      !.result = determine_target_agent(outcome.input.task_type,
                                     outcome.input.sub_agents, outcome.input.group)]
    /\ UNCHANGED <<senders, activities, sessions, messages, calls, outbox, now, response, analysis>>

\* Step 5 of orchestrator() picks its branch.
OrchestratorRoute ==
    /\ outcome.routine = "orchestrator"
    /\ ~outcome.done
    /\ outcome' = [outcome EXCEPT !.done = TRUE,
                                  !.result = OrchestratorHandler(outcome.input)]
    /\ UNCHANGED <<senders, activities, sessions, messages, calls, outbox, now, response, analysis>>

\* check_approval_required_after_execution returns.
CheckApprovalRequired ==
    /\ outcome.routine = "check_approval_required_after_execution"
    /\ ~outcome.done
    /\ outcome' = [outcome EXCEPT
                      !.done = TRUE,
                      !.result = check_approval_required_after_execution(
                                     outcome.input.task_type, outcome.input.confidence)]
    /\ UNCHANGED <<senders, activities, sessions, messages, calls, outbox, now, response, analysis>>

\* TenderPilotDelegationRouter.route_task returns.
RouteTask ==
    /\ outcome.routine = "route_task"
    /\ ~outcome.done
    /\ outcome' = [outcome EXCEPT !.done = TRUE,
                                  !.result = route_task(outcome.input).requires_approval]
    /\ UNCHANGED <<senders, activities, sessions, messages, calls, outbox, now, response, analysis>>

\* The routing of orchestrator() has run for an action type.
OrchestratorRouting ==
    /\ outcome.routine = "orchestrator_routing"
    /\ ~outcome.done
    /\ outcome' = [outcome EXCEPT !.done = TRUE,
                                  !.result = OrchestratorRoutingApproval(outcome.input)]
    /\ UNCHANGED <<senders, activities, sessions, messages, calls, outbox, now, response, analysis>>

\* delegate_to_agent returns the result built from the Task.
HostDelegate ==
    /\ outcome.routine = "delegate_to_agent"
    /\ ~outcome.done
    /\ outcome' = [outcome EXCEPT
                      !.done = TRUE,
                      !.result = delegate_to_agent("Client Communication Agent",
                                     RemoteAgentNames, "task", outcome.input)]
    /\ UNCHANGED <<senders, activities, sessions, messages, calls, outbox, now, response, analysis>>

\* The whole system at one reading of the clock.
Next ==
    \/ Orchestrator
    \/ ProcessEvidence
    \/ UpdateActivityStatus
    \/ SendApprovedEmail

Spec == Init /\ [][Next]_vars

\* The requests alone: what the orchestrator and the evidence pipeline log.
NextRequests ==
    \/ Orchestrator
    \/ ProcessEvidence

SpecRequests == Init /\ [][NextRequests]_vars

\* The Approval Ledger and the email sender, with time passing.
NextLedger ==
    \/ Tick
    \/ ClientCommunicationGuru
    \/ UpdateActivityStatus
    \/ SendApprovedEmail

SpecLedger == Init /\ [][NextLedger]_vars

\* The Conversation Store under concurrent callers, with time passing.
NextConversation ==
    \/ Tick
    \/ CreateSession
    \/ StoreMessageInsert
    \/ StoreMessageUpdate
    \/ EndSession

SpecConversation == Init /\ [][NextConversation]_vars

\* The Conversation Store at one reading of the clock: sessions that are
\* created and ended, and the two statements of store_message, interleaved.
NextCounter ==
    \/ CreateSession
    \/ StoreMessageInsert
    \/ StoreMessageUpdate
    \/ EndSession

SpecCounter == Init /\ [][NextCounter]_vars

\* The two Intent Classifiers, each called on the replies the inference
\* service can give: the one inside orchestrator(), and analyze_intent of
\* the host orchestrator.
NextClassifier ==
    \/ OrchestratorAnalysis
    \/ HostAnalyzeIntent

SpecClassifier == Init /\ [][NextClassifier]_vars

\* The host orchestrator processing one request.
NextHost ==
    HostProcess

SpecHost == InitHost /\ [][NextHost]_vars

\* The three routers, each called once on an action kind.
NextRouting ==
    \/ RouteTaskToAgent
    \/ DetermineTargetAgent
    \/ OrchestratorRoute

SpecRouting == InitRouting /\ [][NextRouting]_vars

\* The three routines that decide whether an action needs approval.
NextApproval ==
    \/ CheckApprovalRequired
    \/ RouteTask
    \/ OrchestratorRouting

SpecApproval == InitApproval /\ [][NextApproval]_vars

\* The normalization of one remote Task by delegate_to_agent.
NextDelegate ==
    HostDelegate

SpecDelegate == InitDelegate /\ [][NextDelegate]_vars

\* The keyword classifier called on one text.
NextKeywords ==
    DetectTaskType

SpecKeywords == InitKeywords /\ [][NextKeywords]_vars

\* The ledger with calls of send_approved_email taken statement by
\* statement: the SELECT, the delivery and the UPDATE of one call are
\* separate statements on separate connections, and nothing keeps the
\* statements of another call from running between them.
NextSenders ==
    \/ ClientCommunicationGuru
    \/ UpdateActivityStatus
    \/ \E c \in Callers : SenderRead(c)
    \/ \E c \in Callers : SenderDeliver(c)
    \/ \E c \in Callers : SenderComplete(c)

SpecSenders == Init /\ [][NextSenders]_vars

\* Requests to the orchestrator while sessions are being ended.
NextSessions ==
    \/ Orchestrator
    \/ EndSession

SpecSessions == Init /\ [][NextSessions]_vars

(* ----------------------- the activity lifecycle ----------------------- *)

\* C1: the status sequence of every activity is a prefix of
\* pending -> approved -> {completed, failed} or of pending -> rejected:
\* a row starts pending, and every write to a row moves its status along
\* one of those arrows, so that a second approval of an approved activity
\* writes nothing.
C1_StatusSequenceIsLifecyclePrefix ==
    [][LET legal == {<<"pending", "approved">>, <<"pending", "rejected">>,
                     <<"approved", "completed">>, <<"approved", "failed">>}
       IN  /\ \A i \in 1..Len(activities) :
                 activities'[i] # activities[i] =>
                     <<activities[i].activity_status,
                       activities'[i].activity_status>> \in legal
           /\ \A i \in (Len(activities) + 1)..Len(activities') :
                 activities'[i].activity_status = "pending"]_vars

\* C1: an activity stands completed that was never approved.
C1_CompletedNeverApproved ==
    \E i \in 1..Len(activities) :
        /\ activities[i].activity_status = "completed"
        /\ activities[i].approved_at = 0

\* C2: once an activity is completed, failed or rejected, no step changes
\* its status, updated_at, execution_result or error_message.
C2_TerminalRowNeverChanges ==
    [][\A i \in 1..Len(activities) :
          activities[i].activity_status \in {"completed", "failed", "rejected"} =>
              /\ activities'[i].activity_status = activities[i].activity_status
              /\ activities'[i].updated_at = activities[i].updated_at
              /\ activities'[i].execution_result = activities[i].execution_result
              /\ activities'[i].error_message = activities[i].error_message]_vars

\* C3: of an approve and a reject racing on one pending activity the
\* database serialises the two UPDATE statements; the one that comes second
\* finds the activity decided and does not overwrite its status,
\* approved_by or approved_at.
C3_DecisionIsNotOverwritten ==
    [][\A i \in 1..Len(activities) :
          (/\ activities[i].activity_status \in {"approved", "rejected"}
           /\ activities'[i].activity_status \in {"approved", "rejected"}) =>
              /\ activities'[i].activity_status = activities[i].activity_status
              /\ activities'[i].approved_by = activities[i].approved_by
              /\ activities'[i].approved_at = activities[i].approved_at]_vars

C5_StaticKindsLogApprovalRows ==
    [][/\ \A i \in (Len(activities) + 1)..Len(activities') :
             activities'[i].agent_action \in StaticApprovalSet \cup {"send_email"} =>
                 /\ activities'[i].requires_approval
                 /\ activities'[i].activity_status = "pending"
       /\ (/\ response'.status = "success"
           /\ response'.action_type \in StaticApprovalSet
           /\ response'.activity_id # 0) =>
                 /\ response'.activity_id \in 1..Len(activities')
                 /\ activities'[response'.activity_id].requires_approval
                 /\ activities'[response'.activity_id].activity_status = "pending"]_vars

\* C5: a request of a static kind was logged while the classifier's
\* requires_approval, which the response echoes, was false.
C5_LoggedAgainstClassifier ==
    /\ response.status = "success"
    /\ response.action_type \in StaticApprovalSet
    /\ ~response.requires_approval
    /\ response.activity_id \in 1..Len(activities)
    /\ activities[response.activity_id].requires_approval
    /\ activities[response.activity_id].agent_action = response.action_type

\* C6: the response to a request of a kind the static table marks as
\* requiring approval has requires_approval = true, also when the
\* classifier reported false.
C6_ResponseFlagFollowsStaticTable ==
    (response.status = "success" /\ response.action_type \in StaticApprovalSet)
        => response.requires_approval

\* C7: the response to a request whose action requires approval carries a
\* non-null activity_id that names a pending row of the ledger, also when
\* the write to the ledger failed.  Stated for draft_email and
\* schedule_appointment, the two kinds whose handlers always reach the
\* ledger write.
C7_ResponseNamesPendingRow ==
    (response.status = "success"
        /\ response.action_type \in {"draft_email", "schedule_appointment"})
        => /\ response.activity_id # 0
           /\ response.activity_id \in 1..Len(activities)
           /\ activities[response.activity_id].activity_status = "pending"

\* C8: every row that enters the ledger has requires_approval = true and
\* status pending, so that no row with requires_approval = false exists.
C8_RowsOnlyForApproval ==
    [][\A i \in (Len(activities) + 1)..Len(activities') :
          /\ activities'[i].requires_approval
          /\ activities'[i].activity_status = "pending"]_vars

\* C8: the ledger holds a row whose requires_approval is false.
C8_RowWithoutApproval ==
    \E i \in 1..Len(activities) :
        /\ ~activities[i].requires_approval
        /\ activities[i].agent_action = "process_email_evidence"

\* C9: approved_by and approved_at are written only by a transition into
\* approved or rejected: a step that leaves a row in any other status
\* leaves both as they were.
C9_ApproverWrittenOnlyByDecision ==
    [][\A i \in 1..Len(activities) :
          activities'[i].activity_status \notin {"approved", "rejected"} =>
              /\ activities'[i].approved_by = activities[i].approved_by
              /\ activities'[i].approved_at = activities[i].approved_at]_vars

\* C9: an approved activity whose email was sent stands completed with its
\* approved_at kept and its approved_by gone.
C9_ApproverErasedBySender ==
    \E k \in 1..Len(outbox) :
        /\ activities[outbox[k]].activity_status = "completed"
        /\ activities[outbox[k]].approved_at # 0
        /\ activities[outbox[k]].approved_by = NULL

\* C10: update_activity_status called with an activity_id that matches no
\* row never returns success.
C10_UnknownIdNeverSucceeds ==
    \A activity_id \in 1..MaxActs, db_ok \in BOOLEAN :
        ~UpdateMatches(activities, activity_id) =>
            ~update_activity_status_ret(activities, activity_id, db_ok)

(* ------------------------ execution and sessions ---------------------- *)

\* C11: once send_approved_email has handed the mail of an approved
\* activity to the sender, the activity is recorded by the sender's report
\* (the ledger being reachable): completed with an execution_result when
\* the sender reports sent, failed with an error_message when it reports
\* not sent; it is not left approved.
C11_AttemptIsRecorded ==
    \A activity_id \in 1..Len(activities), smtp_ok \in BOOLEAN :
        LET r == send_approved_email(activities, activity_id, TRUE, TRUE,
                     smtp_ok, TRUE, now)
        IN  r.attempted =>
                IF r.sent
                THEN /\ r.activities[activity_id].activity_status = "completed"
                     /\ r.activities[activity_id].execution_result # NULL
                ELSE /\ r.activities[activity_id].activity_status = "failed"
                     /\ r.activities[activity_id].error_message # NULL

\* C12: in every orchestrator request the user message is appended to the
\* session before the handler is invoked and the agent message after the
\* handler has returned: a request appends nothing, the user message alone,
\* or the user message followed by the agent message of the same session;
\* a request whose handler wrote to the ledger has stored its user message,
\* and one that left no agent message after a user message has raised.
C12_UserBeforeHandlerAgentAfter ==
    [][response'.status # "none" =>
          LET n  == Len(messages)
              n2 == Len(messages')
          IN  /\ n2 \in {n, n + 1, n + 2}
              /\ SubSeq(messages', 1, n) = messages
              /\ n2 > n => messages'[n + 1].role = "user"
              /\ n2 = n + 2 =>
                    /\ messages'[n + 2].role = "agent"
                    /\ messages'[n + 2].session_id = messages'[n + 1].session_id
              /\ n2 = n + 1 => response'.status = "raised"
              /\ activities' # activities => n2 > n
              /\ response'.status = "success" => n2 = n + 2]_vars

\* C12: a request has been answered after a handler that logged an
\* activity, and the session holds its user message followed by its agent
\* message.
C12_UserThenAgentStored ==
    /\ response.status = "success"
    /\ response.activity_id # 0
    /\ Len(messages) >= 2
    /\ messages[Len(messages) - 1].role = "user"
    /\ messages[Len(messages)].role = "agent"
    /\ messages[Len(messages)].session_id = response.session_id

\* C13: for every session and every N, every list get_recent_messages may
\* return holds the last min(N, total) messages of the session in the
\* order of the store_message calls, oldest first, also when messages
\* carry the same timestamp.
C13_RecentIsCallOrderSuffix ==
    \A session_id \in 1..Len(sessions), N \in 1..MaxMsgs :
        LET rows == SessionRows(messages, session_id)
            k    == IF N < Cardinality(rows) THEN N ELSE Cardinality(rows)
            last == {i \in rows : Cardinality({j \in rows : j > i}) < k}
        IN  \A res \in get_recent_messages(messages, session_id, N, TRUE) :
                /\ Len(res) = k
                /\ \A a \in 1..k : res[a] \in last
                /\ \A a, b \in 1..k : a < b => res[a] < res[b]

\* C13: two messages of one session carry the same timestamp.
C13_TwoMessagesShareTimestamp ==
    \E i, j \in 1..Len(messages) :
        /\ i < j
        /\ messages[i].session_id = messages[j].session_id
        /\ messages[i].timestamp = messages[j].timestamp

\* C14: whatever the interleaving of the statements of store_message calls,
\* and whichever calls raise after their INSERT, a session's message_count
\* is the number of its messages whose call ran its UPDATE: it never
\* exceeds the number of messages stored for the session, it equals that
\* number when every call has succeeded, and no step decreases it.
C14_CountTracksStoredMessages ==
    /\ [](\A s \in 1..Len(sessions) :
            /\ sessions[s].message_count =
                  Cardinality({m \in SessionRows(messages, s) : calls[m] = "updated"})
            /\ sessions[s].message_count <= Cardinality(SessionRows(messages, s))
            /\ (\A m \in SessionRows(messages, s) : calls[m] = "updated") =>
                  sessions[s].message_count = Cardinality(SessionRows(messages, s)))
    /\ [][\A s \in 1..Len(sessions) :
             sessions'[s].message_count >= sessions[s].message_count]_vars

\* C14: a session counts one message of the two stored for it, the call of
\* the other having raised after its INSERT.
C14_CountUnderReports ==
    \E s \in 1..Len(sessions) :
        /\ sessions[s].message_count = 1
        /\ Cardinality(SessionRows(messages, s)) = 2
        /\ \E m \in SessionRows(messages, s) : calls[m] = "raised"

\* C15: end_session on a session that is already ended (status completed
\* or needs_approval) is a no-op: no step changes the status or the
\* completion time of an ended session.
C15_EndedSessionIsNotReEnded ==
    [][\A s \in 1..Len(sessions) :
          sessions[s].status \in FinalStatuses =>
              /\ sessions'[s].status = sessions[s].status
              /\ sessions'[s].completed_at = sessions[s].completed_at]_vars

\* C15: a session stands ended, with the time it was ended at.
C15_SessionEnded ==
    \E s \in 1..Len(sessions) :
        /\ sessions[s].status \in FinalStatuses
        /\ sessions[s].completed_at # 0

(* ------------------------- session resolution ------------------------- *)

\* C16: a request that is answered continues a session exactly when its
\* case has an active session and the classifier reports a continuation,
\* and then the session is an active session of that case with the most
\* recent last_activity; otherwise it runs in a new session, created
\* active, and reports session_mode new.
C16_ContinuesNewestActiveSessionOfCase ==
    \A case_id \in Cases, session_id \in 0..Len(sessions),
       reply \in {r \in Replies : r.kind = "json" /\ r.data.action_type = "general_query"} :
        \A active \in (IF session_id # 0 THEN {0}
                       ELSE get_active_session(sessions, case_id) \cup {0}) :
            LET r      == orchestrator(case_id, session_id, active, reply, "none",
                                       TRUE, TRUE, TRUE)
                newest == get_active_session(sessions, case_id)
            IN  /\ r.ret.session_mode = "continue" <=>
                       (newest # {} /\ reply.data.is_continuation)
                /\ r.ret.session_mode = "continue" =>
                       /\ r.ret.session_id \in newest
                       /\ r.sessions[r.ret.session_id].case_id = case_id
                /\ r.ret.session_mode = "new" =>
                       /\ r.ret.session_id = Len(sessions) + 1
                       /\ Len(r.sessions) = Len(sessions) + 1
                       /\ r.sessions[r.ret.session_id].status = "active"
                       /\ r.sessions[r.ret.session_id].case_id = case_id

\* C16: a session holds a request's two messages and is the only session,
\* so that a later request of either case can name it.
C16_SessionToResolve ==
    /\ Len(sessions) = 1
    /\ sessions[1].status = "active"
    /\ sessions[1].message_count = 2
    /\ response.session_mode = "new"

(* ------------------------ classification failures --------------------- *)

\* C17: for every reply that cannot be parsed as the structured decision
\* (a text that is not JSON, or JSON that is not an object), each Intent
\* Classifier returns exactly the default: is_continuation false,
\* action_type general_query, requires_approval false.
C17_UnparsableReplyGivesDefault ==
    (analysis.classifier # "none" /\ analysis.reply.kind \in {"unparsable", "non_object"}) =>
        /\ ~analysis.raises
        /\ analysis.data = FallbackAnalysis

\* C17: the orchestrator's classifier was given JSON that is not an object.
C17_NonObjectReplyClassified ==
    /\ analysis.classifier = "orchestrator"
    /\ analysis.reply.kind = "non_object"

\* C18: when the inference call itself fails, each classifier still yields
\* the default decision and raises nothing.
C18_InferenceFailureIsRecovered ==
    (analysis.classifier # "none" /\ analysis.reply.kind = "raise") =>
        /\ ~analysis.raises
        /\ analysis.data = FallbackAnalysis

\* C18: the orchestrator's classifier met a failing inference call.
C18_InferenceFailedInOrchestrator ==
    /\ analysis.classifier = "orchestrator"
    /\ analysis.reply.kind = "raise"

\* C19: a request on which classifying or delegating raises is still
\* answered by the orchestrator, with status error: the exception does not
\* leave orchestrator(), and the session rows stay as they were created.
C19_OrchestratorAnswersError ==
    \A case_id \in Cases, reply \in Replies, abort \in {"infer", "analysis", "handler"} :
        \A active \in get_active_session(sessions, case_id) \cup {0} :
            abort \in PossibleAborts(0, active, reply) =>
                LET r == orchestrator(case_id, 0, active, reply, abort, TRUE, TRUE, TRUE)
                IN  /\ r.ret.status = "error"
                    /\ \A s \in 1..Len(sessions) :
                          r.sessions[s].status = sessions[s].status
                    /\ \A s \in (Len(sessions) + 1)..Len(r.sessions) :
                          r.sessions[s].status = "active"

\* C19: a request raised in its handler, after its session was created and
\* its user message stored.
C19_RaisedAfterSessionCreated ==
    /\ response.status = "raised"
    /\ Len(sessions) = 1
    /\ sessions[1].status = "active"
    /\ sessions[1].message_count = 1
    /\ Len(messages) = 1
    /\ messages[1].role = "user"

\* C20: when the handler of a request whose action needs no approval
\* fails, the orchestrator answers status error with requires_approval
\* false, the ledger gets no row, and the session receives an agent
\* message after the user message.
C20_FailedDelegationIsRecorded ==
    \A case_id \in Cases,
       reply \in {x \in Replies : /\ x.kind = "json"
                                  /\ x.data.action_type \notin StaticApprovalSet
                                  /\ HandlerCanRaise(x.data.action_type)} :
        \A active \in get_active_session(sessions, case_id) \cup {0} :
            LET r == orchestrator(case_id, 0, active, reply, "handler", TRUE, TRUE, TRUE)
                n == Len(messages)
            IN  /\ r.ret.status = "error"
                /\ ~r.ret.requires_approval
                /\ r.activities = activities
                /\ Len(r.messages) = n + 2
                /\ r.messages[n + 1].role = "user"
                /\ r.messages[n + 2].role = "agent"

\* C20: a request left a user message that no agent message follows, and
\* no ledger row.
C20_UserMessageWithoutAnswer ==
    /\ response.status = "raised"
    /\ activities = <<>>
    /\ Len(messages) >= 1
    /\ messages[Len(messages)].role = "user"

(* --------------------------- delegation claims ------------------------ *)

\* C21: every delegation failure (an action kind the host does not know, a
\* handler name that is not registered, a timeout or transport error)
\* gives status error in the response of process, and process does not
\* raise.
C21_DelegationFailureIsAnError ==
    (outcome.routine = "process" /\ outcome.done) =>
        LET i == outcome.input
            failed == /\ outcome.result.delegated
                      /\ \/ i.analysis.action_type \notin HostActionTypes
                         \/ i.analysis.agent_name \notin i.registered
                         \/ i.transport \in {"raise", "unexpected"}
        IN  /\ ~outcome.result.raises
            /\ failed => outcome.result.status = "error"

\* C21: process was asked to delegate to a name that is not registered.
C21_UnregisteredAgentDelegated ==
    /\ outcome.routine = "process"
    /\ outcome.done
    /\ outcome.result.delegated
    /\ outcome.input.analysis.agent_name \notin outcome.input.registered

\* C22: a router called on an action kind that its table does not hold
\* answers with an error and selects no handler: not a default one, and
\* not one guessed from the text.
C22_UnknownKindSelectsNoHandler ==
    outcome.done =>
        /\ (outcome.routine = "route_task_to_agent"
              /\ outcome.input.text \notin AgentMappingKeys) =>
                  /\ outcome.result.status = "error"
                  /\ outcome.result.target_agent = "none"
        /\ (outcome.routine = "determine_target_agent"
              /\ outcome.input.task_type \notin TaskRoutingKeys) =>
                  outcome.result = "None"
        /\ (outcome.routine = "orchestrator"
              /\ outcome.input \notin ActionTypes) =>
                  outcome.result = "none"

\* C22: a router was called on a kind outside its table.
C22_UnknownKindRouted ==
    /\ outcome.done
    /\ \/ outcome.routine = "route_task_to_agent" /\ outcome.input.text = "file_motion"
       \/ outcome.routine = "determine_target_agent" /\ outcome.input.task_type = "file_motion"
       \/ outcome.routine = "orchestrator" /\ outcome.input = "file_motion"

\* C23: whichever routine decides, a communication to a client or third
\* party and a schedule change require approval, and a pure read,
\* research or organize kind does not.
C23_ApprovalFollowsActionKind ==
    outcome.done =>
        LET kind == IF outcome.routine = "check_approval_required_after_execution"
                    THEN outcome.input.task_type ELSE outcome.input
            decides == outcome.routine \in {"check_approval_required_after_execution",
                                            "route_task", "orchestrator_routing"}
            known == outcome.routine = "orchestrator_routing" \/ kind \in AgentMappingKeys
        IN  (decides /\ known) =>
                /\ kind \in {"client_communication", "schedule_appointment",
                              "draft_email", "request_records"} => outcome.result
                /\ kind \in {"legal_research", "document_organization",
                              "research_internal", "research_external",
                              "search_records", "process_evidence",
                              "general_query"} => ~outcome.result

\* C23: the delegation router decided on a schedule change.
C23_ScheduleChangeDecided ==
    /\ outcome.done
    /\ outcome.routine = "route_task"
    /\ outcome.input = "schedule_appointment"

\* C24: the content of a normalized Task is the text of the status
\* message (of its last text part) unless the message has no text or its
\* text is the placeholder; only then it is the artifact text (the first
\* one that is not the placeholder), so that an artifact text never
\* replaces a status text other than the placeholder.
C24_StatusTextBeforeArtifactText ==
    (outcome.routine = "delegate_to_agent" /\ outcome.done) =>
        LET sp    == outcome.input.status_parts
            ap    == outcome.input.artifact_parts
            sidx  == {i \in 1..Len(sp) : sp[i].type = "text"}
            aidx  == {i \in 1..Len(ap) : ap[i].type = "text" /\ ap[i].text # Placeholder}
            stext == IF sidx = {} THEN Placeholder
                     ELSE sp[CHOOSE i \in sidx : \A j \in sidx : j <= i].text
            atext == IF aidx = {} THEN Placeholder
                     ELSE ap[CHOOSE i \in aidx : \A j \in aidx : i <= j].text
        IN  outcome.result.content = IF stext # Placeholder THEN stext ELSE atext

\* C24: a Task whose status message and artifacts both carry a text was
\* normalized to the status text.
C24_BothTextsPresent ==
    /\ outcome.routine = "delegate_to_agent"
    /\ outcome.done
    /\ outcome.input.status_parts = <<[type |-> "text", text |-> "t1", data |-> "absent"]>>
    /\ outcome.input.artifact_parts = <<[type |-> "text", text |-> "t2", data |-> "absent"]>>
    /\ outcome.result.content = "t1"

C26_FencedReplyIsParsed ==
    analysis.reply.kind = "fenced" =>
        LET unwrapped == [kind |-> "json", data |-> analysis.reply.data]
            plain     == IF analysis.classifier = "orchestrator"
                         THEN orchestrator_analysis(unwrapped)
                         ELSE analyze_intent(unwrapped)
        IN  /\ analysis.raises = plain.raises
            /\ analysis.data = plain.data
            /\ analysis.data = analysis.reply.data

\* C26: the classifier of orchestrator() was given a fenced decision other
\* than the default and answered the default.
C26_FencedDecisionLost ==
    /\ analysis.classifier = "orchestrator"
    /\ analysis.reply.kind = "fenced"
    /\ analysis.reply.data # FallbackAnalysis
    /\ ~analysis.raises
    /\ analysis.data = FallbackAnalysis

\* C27: the confidence the keyword classifier returns is the quotient
\* matched / defined of one category, between 0 and 1, that no category's
\* quotient exceeds; the classifier answers unknown exactly when ten times
\* the matched count is below the defined count for every category, and
\* answers that category of highest confidence otherwise.
C27_ConfidenceAndThreshold ==
    (outcome.routine = "intelligent_task_type_detection" /\ outcome.done) =>
        LET m == outcome.input
            r == outcome.result
            N == 1..Len(Categories)
        IN  /\ 0 <= r.score /\ r.score <= r.total
            /\ r.task_type = "unknown" <=> \A i \in N : 10 * m[i] < KeywordCount[i]
            /\ \E i \in N :
                  /\ r.score = m[i] /\ r.total = KeywordCount[i]
                  /\ \A j \in N : m[j] * KeywordCount[i] <= m[i] * KeywordCount[j]
                  /\ r.task_type \in {"unknown", Categories[i]}

\* C27: a text with one keyword of medical_records and two of
\* legal_research was classified as legal_research with confidence 2/16.
C27_TwoOfSixteenBeatsOneOfThirteen ==
    /\ outcome.routine = "intelligent_task_type_detection"
    /\ outcome.done
    /\ outcome.input = <<1, 0, 2, 0, 0>>
    /\ outcome.result = [task_type |-> "legal_research", score |-> 2, total |-> 16]

(* ---------------------- one row, one send, one session ---------------- *)

\* C28: a request to the orchestrator adds at most one row to the ledger;
\* a draft_email request answered with an activity_id adds exactly one
\* row, pending, and the activity_id is the id of that row.
C28_OneRowPerRequest ==
    [][response'.status = "success" =>
          /\ Len(activities') <= Len(activities) + 1
          /\ (response'.action_type = "draft_email" /\ response'.activity_id # 0) =>
                /\ Len(activities') = Len(activities) + 1
                /\ response'.activity_id = Len(activities')
                /\ activities'[Len(activities')].activity_status = "pending"]_vars

\* C28: one draft_email request left two pending rows, send_email and
\* draft_email, and was answered with the id of the second.
C28_TwoRowsForOneDraft ==
    /\ response.status = "success"
    /\ response.action_type = "draft_email"
    /\ Len(activities) = 2
    /\ Len(messages) = 2
    /\ activities[1].agent_action = "send_email"
    /\ activities[2].agent_action = "draft_email"
    /\ activities[1].activity_status = "pending"
    /\ activities[2].activity_status = "pending"
    /\ response.activity_id = 2

\* C29: the mail of an activity is delivered at most once, however the
\* calls of send_approved_email for it interleave or repeat: a call
\* delivers only for an activity no call has delivered for.
C29_DeliveredAtMostOnce ==
    \A i, j \in 1..Len(outbox) : outbox[i] = outbox[j] => i = j

\* C29: two calls for the same approved row have both read it and both
\* delivered its mail before either set it to completed.
C29_TwoCallsBothDelivered ==
    /\ outbox = <<1, 1>>
    /\ \A c \in Callers : senders[c] = [pc |-> "delivered", activity_id |-> 1]
    /\ activities[1].activity_status = "approved"

\* C30: every message a request appends goes to a session that exists, is
\* active and belongs to the case of the request, whether the session was
\* looked up for the case or named by the caller.
C30_AppendsOnlyToActiveSessionOfCase ==
    \A case_id \in Cases, session_id \in 0..Len(sessions),
       reply \in {r \in Replies : r.kind = "json" /\ r.data.action_type = "general_query"} :
        \A active \in (IF session_id # 0 THEN {0}
                       ELSE get_active_session(sessions, case_id) \cup {0}) :
            LET r == orchestrator(case_id, session_id, active, reply, "none",
                                  TRUE, TRUE, TRUE)
            IN  \A i \in (Len(messages) + 1)..Len(r.messages) :
                    LET s == r.messages[i].session_id
                    IN  /\ s \in 1..Len(r.sessions)
                        /\ r.sessions[s].status = "active"
                        /\ r.sessions[s].case_id = case_id

\* C30: a request that named an ended session was answered as a
\* continuation of it and its two messages were appended to it.
C30_EndedSessionContinued ==
    /\ response.status = "success"
    /\ response.session_mode = "continue"
    /\ response.session_id = 1
    /\ sessions[1].status # "active"
    /\ sessions[1].message_count = 2
    /\ Len(messages) = 2
    /\ \A i \in 1..2 : messages[i].session_id = 1

====
